---- MODULE Spec2Model ----
(***************************************************************************)
(* Model of main/esp32-local-area-network-scanner.c: app_main brings up    *)
(* NVS, netif, the default event loop and the Wi-Fi driver in station      *)
(* mode, then loops forever { blocking scan, fetch count and records,      *)
(* log a table, free the record buffer, vTaskDelay(3000 ms) }.             *)
(*                                                                         *)
(* One task, so the state is the position of app_main (pc), its locals     *)
(* (ap_num, recs, i), the heap that calloc/free act on, and the event      *)
(* history of the current loop iteration (trace): driver calls with their  *)
(* return codes, heap calls, log lines and delays.  The ESP-IDF driver and *)
(* the allocator are the environment: their return values are chosen       *)
(* nondeterministically within their documented contracts.                 *)
(***************************************************************************)
EXTENDS Integers, Sequences, FiniteSets, TLC

VARIABLES pc, ap_num, recs, i, heap, trace, tickRate,
          fnMode, fnSsid, fnLabel, fnDisp

progVars == <<pc, ap_num, recs, i, heap, trace, tickRate>>
fnVars == <<fnMode, fnSsid, fnLabel, fnDisp>>
vars == <<pc, ap_num, recs, i, heap, trace, tickRate, fnMode, fnSsid, fnLabel, fnDisp>>

----------------------------------------------------------------------------
(* Bounds of the model *)

\* largest AP count the stubbed driver reports from esp_wifi_scan_get_ap_num
MaxAp == 2
\* number of distinct heap addresses calloc may hand out
MaxAddr == 2
\* longest explicit byte prefix of the identifier buffers fed to ssid_or_none
MaxSsidLen == 2

(* Program constants *)

\* vTaskDelay(pdMS_TO_TICKS(3000))
DelayMs == 3000
\* const uint8_t ssid[33]
SsidBufLen == 33

\* the null pointer of wifi_ap_record_t *recs; the other addresses are 1..MaxAddr
NULL == 0
Addrs == 1..MaxAddr
\* the null pointer of a byte buffer: no array behind it
NullSsid == << >>

\* esp_err_t values a checked call can return; everything but ESP_OK is a failure
ESP_OK == "ESP_OK"
EspErr == {"ESP_OK", "ESP_FAIL", "ESP_ERR_NO_MEM"}

\* configTICK_RATE_HZ of the build (sdkconfig), fixed for a run
TickRates == {100, 250, 1000}

----------------------------------------------------------------------------
(* Byte strings *)

Min(S) == CHOOSE x \in S : \A y \in S : x <= y

\* a byte prefix laid into a zero-filled uint8_t[33]
Pad(s) == [k \in 1..SsidBufLen |-> IF k <= Len(s) THEN s[k] ELSE 0]

\* what printf's %s prints for a char buffer: the bytes before the first NUL
CStr(b) ==
    LET z == {k \in 1..Len(b) : b[k] = 0}
    IN  IF z = {} THEN b ELSE SubSeq(b, 1, Min(z) - 1)

\* the string literal "NONE" as the bytes of its array, NUL included
NONE == <<78, 79, 78, 69, 0>>

HexDigits == <<"0", "1", "2", "3", "4", "5", "6", "7",
               "8", "9", "A", "B", "C", "D", "E", "F">>

\* printf's %02X of one octet
Hex02X(b) == HexDigits[(b \div 16) + 1] \o HexDigits[(b % 16) + 1]

----------------------------------------------------------------------------
(* The two helpers *)

RecognizedModes ==
    {"WIFI_AUTH_OPEN", "WIFI_AUTH_WEP", "WIFI_AUTH_WPA_PSK", "WIFI_AUTH_WPA2_PSK",
     "WIFI_AUTH_WPA_WPA2_PSK", "WIFI_AUTH_WPA2_ENTERPRISE", "WIFI_AUTH_WPA3_PSK",
     "WIFI_AUTH_WPA2_WPA3_PSK"}

\* enumerators of wifi_auth_mode_t the switch has no case for
OtherModes == {"WIFI_AUTH_WAPI_PSK", "WIFI_AUTH_OWE", "WIFI_AUTH_MAX"}

AuthModes == RecognizedModes \cup OtherModes

\* a slip in the switch: the WPA2-PSK case returns the WPA label
authmode_to_str_swapped(m) ==
    CASE m = "WIFI_AUTH_OPEN"            -> "OPEN"
      [] m = "WIFI_AUTH_WEP"             -> "WEP"
      [] m = "WIFI_AUTH_WPA_PSK"         -> "WPA"
      [] m = "WIFI_AUTH_WPA2_PSK"        -> "WPA"
      [] m = "WIFI_AUTH_WPA_WPA2_PSK"    -> "WPA/WPA2"
      [] m = "WIFI_AUTH_WPA2_ENTERPRISE" -> "WPA2-E"
      [] m = "WIFI_AUTH_WPA3_PSK"        -> "WPA3"
      [] m = "WIFI_AUTH_WPA2_WPA3_PSK"   -> "WPA2/3"
      [] OTHER                           -> "UNK"

authmode_to_str(m) ==
    CASE m = "WIFI_AUTH_OPEN"            -> "OPEN"
      [] m = "WIFI_AUTH_WEP"             -> "WEP"
      [] m = "WIFI_AUTH_WPA_PSK"         -> "WPA"
      [] m = "WIFI_AUTH_WPA2_PSK"        -> "WPA2"
      [] m = "WIFI_AUTH_WPA_WPA2_PSK"    -> "WPA/WPA2"
      [] m = "WIFI_AUTH_WPA2_ENTERPRISE" -> "WPA2-E"
      [] m = "WIFI_AUTH_WPA3_PSK"        -> "WPA3"
      [] m = "WIFI_AUTH_WPA2_WPA3_PSK"   -> "WPA2/3"
      [] OTHER                           -> "UNK"

\* a slip in the test: the last byte of the buffer is tested, not the first
ssid_or_none_lastbyte(ssid) ==
    IF ssid # NullSsid /\ ssid[Len(ssid)] # 0 THEN ssid ELSE NONE

\* The result is a pointer; it is modelled by the array it points to: the
\* argument itself, or the literal "NONE".
ssid_or_none(ssid) ==
    IF ssid # NullSsid /\ ssid[1] # 0 THEN ssid ELSE NONE

----------------------------------------------------------------------------
(* Records the stubbed driver can return (wifi_ap_record_t: bssid, ssid,   *)
(* primary, rssi, authmode)                                                *)

ApRecord(bssid, ssid, primary, rssi, authmode) ==
    [bssid |-> bssid, ssid |-> Pad(ssid), primary |-> primary,
     rssi |-> rssi, authmode |-> authmode]

SampleRecords ==
    { ApRecord(<<17, 34, 51, 68, 85, 102>>, <<84, 101, 115, 116, 78, 101, 116>>,
               6, -40, "WIFI_AUTH_WPA2_PSK"),
      ApRecord(<<170, 187, 204, 221, 238, 255>>, <<>>,
               11, -80, "WIFI_AUTH_OPEN"),
      ApRecord(<<0, 1, 2, 10, 15, 16>>, <<0, 88>>,
               1, -95, "WIFI_AUTH_OWE"),
      ApRecord(<<222, 173, 190, 239, 0, 9>>, [k \in 1..(SsidBufLen - 1) |-> 97],
               13, -1, "WIFI_AUTH_WPA2_WPA3_PSK") }

\* a record of a buffer fresh from calloc: all bytes zero
ZeroRecord == ApRecord(<<0, 0, 0, 0, 0, 0>>, <<>>, 0, 0, "WIFI_AUTH_OPEN")

SeqsUpTo(S, n) == UNION {[1..k -> S] : k \in 0..n}

wifi_scan_config ==
    [ssid |-> NULL, bssid |-> NULL, channel |-> 0, show_hidden |-> TRUE,
     scan_type |-> "WIFI_SCAN_TYPE_ACTIVE",
     scan_time |-> [active |-> [min |-> 100, max |-> 200]]]

----------------------------------------------------------------------------
(* Events of the iteration history *)

CallEv(fn, ret) == [ev |-> "call", fn |-> fn, ret |-> ret]
LogEv(line) == [ev |-> "log", line |-> line]

\* ESP_ERROR_CHECK compiled out (as with NDEBUG): the result is ignored
ESP_ERROR_CHECK_ignored(ret, next) == next

\* ESP_ERROR_CHECK(x): abort() unless x == ESP_OK
ESP_ERROR_CHECK(ret, next) == IF ret = ESP_OK THEN next ELSE "aborted"

\* the conversion forgotten: the millisecond count is passed as ticks
pdMS_TO_TICKS_raw(ms) == ms

\* pdMS_TO_TICKS: (ms * configTICK_RATE_HZ) / 1000 in TickType_t; with the
\* tick rates of TickRates the product stays far below 2^32, so no wrap
pdMS_TO_TICKS(ms) == (ms * tickRate) \div 1000

\* the time a delay of `ticks` lasts at the build's tick rate, in ms
TicksToMs(ticks) == (ticks * 1000) \div tickRate

\* the iteration's `s` is dropped only for 0 and 1
PluralSuffix_le(n) == IF n <= 1 THEN "" ELSE "s"

\* (ap_num == 1 ? "" : "s")
PluralSuffix(n) == IF n = 1 THEN "" ELSE "s"

\* "Found %u network%s"
HeaderLine(n) == [kind |-> "header", text |-> <<"Found ", n, " network", PluralSuffix(n)>>]

\* the row prints the loop index one too high
FormatRow_offbyone(idx, r) ==
    [kind |-> "row", idx |-> idx + 1,
     ssid |-> CStr(ssid_or_none(r.ssid)),
     rssi |-> r.rssi, unit |-> "dBm", primary |-> r.primary,
     auth |-> authmode_to_str(r.authmode),
     bssid |-> [k \in 1..6 |-> Hex02X(r.bssid[k])]]

\* "%2d | %-32s | %4d dBm | %4d | %-8s | %02X:%02X:%02X:%02X:%02X:%02X"
\* (the column padding is not modelled)
FormatRow(idx, r) ==
    [kind |-> "row", idx |-> idx,
     ssid |-> CStr(ssid_or_none(r.ssid)),
     rssi |-> r.rssi, unit |-> "dBm", primary |-> r.primary,
     auth |-> authmode_to_str(r.authmode),
     bssid |-> [k \in 1..6 |-> Hex02X(r.bssid[k])]]

----------------------------------------------------------------------------
(* Phases of the scan-report loop *)

InitPcs == {"nvs_flash_init", "esp_netif_init", "esp_event_loop_create_default",
            "esp_netif_create_default_wifi_sta", "esp_wifi_init",
            "esp_wifi_set_mode", "esp_wifi_start"}

\* SCANNING is the blocking scan call; REPORTING runs from the retrieval of
\* the count to the closing separator; SLEEPING is the delay.
Phase ==
    CASE pc \in InitPcs -> "INIT"
      [] pc \in {"scan_start", "scan_blocked"} -> "SCANNING"
      [] pc \in {"get_ap_num", "if_ap_num", "get_ap_records", "log_header",
                 "for", "if_recs", "log_sep"} -> "REPORTING"
      [] pc \in {"vTaskDelay", "sleeping"} -> "SLEEPING"
      [] pc = "aborted" -> "ABORTED"
      [] OTHER -> "EXITED"

----------------------------------------------------------------------------
(* The heap: each address is free or holds one live block of calloc.  A    *)
(* live block knows how many records it was allocated for, their content   *)
(* and whether it was allocated in the current iteration ("cur") or in an  *)
(* earlier one ("old").                                                    *)

FreeCell == [live |-> FALSE, cap |-> 0, data |-> << >>, age |-> "cur"]

LiveAddrs == {a \in Addrs : heap[a].live}

----------------------------------------------------------------------------
(* Initial state: app_main entered, nothing initialised, heap empty *)

ProgInit ==
    /\ pc = "nvs_flash_init"
    /\ ap_num = 0
    /\ recs = NULL
    /\ i = 0
    /\ heap = [a \in Addrs |-> FreeCell]
    /\ trace = << >>
    /\ tickRate \in TickRates

Init ==
    /\ ProgInit
    /\ fnMode = "WIFI_AUTH_OPEN"
    /\ fnSsid = NullSsid
    /\ fnLabel = "-"
    /\ fnDisp = << >>

----------------------------------------------------------------------------
(* INIT: lines 66-85.  Each checked call is one step; the driver picks the *)
(* return code.                                                            *)

\* printf("\n"); ESP_ERROR_CHECK(nvs_flash_init());
NvsFlashInit ==
    /\ pc = "nvs_flash_init"
    /\ \E ret \in EspErr :
         /\ trace' = trace \o <<[ev |-> "printf", text |-> "\n"], CallEv("nvs_flash_init", ret)>>
         /\ pc' = ESP_ERROR_CHECK(ret, "esp_netif_init")
    /\ UNCHANGED <<ap_num, recs, i, heap, tickRate, fnVars>>

\* ESP_ERROR_CHECK(esp_netif_init());
EspNetifInit ==
    /\ pc = "esp_netif_init"
    /\ \E ret \in EspErr :
         /\ trace' = Append(trace, CallEv("esp_netif_init", ret))
         /\ pc' = ESP_ERROR_CHECK(ret, "esp_event_loop_create_default")
    /\ UNCHANGED <<ap_num, recs, i, heap, tickRate, fnVars>>

\* ESP_ERROR_CHECK(esp_event_loop_create_default());
EspEventLoopCreateDefault ==
    /\ pc = "esp_event_loop_create_default"
    /\ \E ret \in EspErr :
         /\ trace' = Append(trace, CallEv("esp_event_loop_create_default", ret))
         /\ pc' = ESP_ERROR_CHECK(ret, "esp_netif_create_default_wifi_sta")
    /\ UNCHANGED <<ap_num, recs, i, heap, tickRate, fnVars>>

\* esp_netif_create_default_wifi_sta();  the returned pointer is dropped
EspNetifCreateDefaultWifiSta ==
    /\ pc = "esp_netif_create_default_wifi_sta"
    /\ \E ret \in {"netif", "null"} :
         trace' = Append(trace, [ev |-> "unchecked", fn |-> "esp_netif_create_default_wifi_sta",
                                 ret |-> ret])
    /\ pc' = "esp_wifi_init"
    /\ UNCHANGED <<ap_num, recs, i, heap, tickRate, fnVars>>

\* ESP_ERROR_CHECK(esp_wifi_init(&cfg));
EspWifiInit ==
    /\ pc = "esp_wifi_init"
    /\ \E ret \in EspErr :
         /\ trace' = Append(trace, CallEv("esp_wifi_init", ret))
         /\ pc' = ESP_ERROR_CHECK(ret, "esp_wifi_set_mode")
    /\ UNCHANGED <<ap_num, recs, i, heap, tickRate, fnVars>>

\* ESP_ERROR_CHECK(esp_wifi_set_mode(WIFI_MODE_STA));
EspWifiSetMode ==
    /\ pc = "esp_wifi_set_mode"
    /\ \E ret \in EspErr :
         /\ trace' = Append(trace, CallEv("esp_wifi_set_mode", ret))
         /\ pc' = ESP_ERROR_CHECK(ret, "esp_wifi_start")
    /\ UNCHANGED <<ap_num, recs, i, heap, tickRate, fnVars>>

\* ESP_ERROR_CHECK(esp_wifi_start()); ... printf("\n");
EspWifiStart ==
    /\ pc = "esp_wifi_start"
    /\ \E ret \in EspErr :
         /\ pc' = ESP_ERROR_CHECK(ret, "scan_start")
         /\ trace' = IF pc' = "aborted"
                     THEN Append(trace, CallEv("esp_wifi_start", ret))
                     ELSE trace \o <<CallEv("esp_wifi_start", ret),
                                     [ev |-> "printf", text |-> "\n"]>>
    /\ UNCHANGED <<ap_num, recs, i, heap, tickRate, fnVars>>

----------------------------------------------------------------------------
(* The loop: lines 87-124 *)

\* while (1) { esp_wifi_scan_start(&scan_cfg, true): the call is made and the
\* task blocks in the driver.  A new iteration begins, so the history starts
\* afresh and whatever is still on the heap dates from an earlier iteration.
ScanStart ==
    /\ pc = "scan_start"
    /\ trace' = <<[ev |-> "invoke", fn |-> "esp_wifi_scan_start",
                   config |-> wifi_scan_config, block |-> TRUE]>>
    /\ heap' = [a \in Addrs |-> IF heap[a].live THEN [heap[a] EXCEPT !.age = "old"]
                                ELSE heap[a]]
    /\ pc' = "scan_blocked"
    /\ UNCHANGED <<ap_num, recs, i, tickRate, fnVars>>

\* the blocking scan returns; ESP_ERROR_CHECK on its result
ScanReturn ==
    /\ pc = "scan_blocked"
    /\ \E ret \in EspErr :
         /\ trace' = Append(trace, CallEv("esp_wifi_scan_start", ret))
         /\ pc' = ESP_ERROR_CHECK(ret, "get_ap_num")
    /\ UNCHANGED <<ap_num, recs, i, heap, tickRate, fnVars>>

\* uint16_t ap_num = 0; ESP_ERROR_CHECK(esp_wifi_scan_get_ap_num(&ap_num));
\* wifi_ap_record_t *recs = NULL;
GetApNum ==
    /\ pc = "get_ap_num"
    /\ \E ret \in EspErr, n \in 0..MaxAp :
         /\ ret # ESP_OK => n = 0
         /\ ap_num' = n
         /\ trace' = Append(trace, [ev |-> "call", fn |-> "esp_wifi_scan_get_ap_num",
                                    ret |-> ret, number |-> n])
         /\ pc' = ESP_ERROR_CHECK(ret, "if_ap_num")
    /\ recs' = NULL
    /\ UNCHANGED <<i, heap, tickRate, fnVars>>

\* if (ap_num > 0) recs = calloc(ap_num, sizeof(*recs));  calloc returns NULL
\* or a block of ap_num zeroed records at an address not in use
Calloc ==
    /\ pc = "if_ap_num"
    /\ ap_num > 0
    /\ \E p \in {NULL} \cup (Addrs \ LiveAddrs) :
         /\ recs' = p
         /\ heap' = IF p = NULL THEN heap
                    ELSE [heap EXCEPT ![p] = [live |-> TRUE, cap |-> ap_num,
                                              data |-> [k \in 1..ap_num |-> ZeroRecord],
                                              age |-> "cur"]]
         /\ trace' = Append(trace, [ev |-> "calloc", n |-> ap_num, ptr |-> p])
    /\ pc' = "get_ap_records"
    /\ UNCHANGED <<ap_num, i, tickRate, fnVars>>

\* if (ap_num > 0) not taken
SkipAlloc ==
    /\ pc = "if_ap_num"
    /\ ~(ap_num > 0)
    /\ pc' = "log_header"
    /\ UNCHANGED <<ap_num, recs, i, heap, trace, tickRate, fnVars>>

\* ESP_ERROR_CHECK(esp_wifi_scan_get_ap_records(&ap_num, recs));
\* Driver contract: *number is on input the number of records the buffer
\* holds and on output the number written, which is not larger; a null
\* buffer is an invalid argument and is answered by an error code.
GetApRecords ==
    /\ pc = "get_ap_records"
    /\ \E ret \in EspErr, s \in SeqsUpTo(SampleRecords, ap_num) :
         /\ recs = NULL => ret # ESP_OK
         /\ ret # ESP_OK => s = << >>
         /\ IF ret = ESP_OK
            THEN /\ ap_num' = Len(s)
                 /\ heap' = [heap EXCEPT ![recs].data =
                                [k \in 1..heap[recs].cap |->
                                    IF k <= Len(s) THEN s[k] ELSE heap[recs].data[k]]]
            ELSE UNCHANGED <<ap_num, heap>>
         /\ trace' = Append(trace, [ev |-> "call", fn |-> "esp_wifi_scan_get_ap_records",
                                    ret |-> ret, max |-> ap_num, buf |-> recs, records |-> s])
         /\ pc' = ESP_ERROR_CHECK(ret, "log_header")
    /\ UNCHANGED <<recs, i, tickRate, fnVars>>

\* the four ESP_LOGI lines that open the table; for (int i = 0; ...
LogHeader ==
    /\ pc = "log_header"
    /\ trace' = trace \o <<LogEv(HeaderLine(ap_num)), LogEv([kind |-> "rule"]),
                           LogEv([kind |-> "title",
                                  text |-> <<" # ", "SSID", "RSSI", "CH", "AUTH", "BSSID">>]),
                           LogEv([kind |-> "rule"])>>
    /\ i' = 0
    /\ pc' = "for"
    /\ UNCHANGED <<ap_num, recs, heap, tickRate, fnVars>>

\* the loop test with <= for <
LoopCond_le == i <= ap_num

\* i < ap_num
LoopCond == i < ap_num

\* recs[i] is a record of a live block
AccessOk == recs \in LiveAddrs /\ i < heap[recs].cap

\* One pass of the loop body: recs[i] is read and its row logged; i++.
\* A read through a null or dangling pointer, or past the end of the block,
\* is undefined: any record may come out of it.
LogRow ==
    /\ pc = "for"
    /\ LoopCond
    /\ \E r \in SampleRecords \cup {ZeroRecord} :
         /\ AccessOk => r = heap[recs].data[i + 1]
         /\ trace' = Append(trace,
                [ev |-> "log", line |-> FormatRow(i, r),
                 read |-> [ptr |-> recs, index |-> i,
                           live |-> recs \in LiveAddrs,
                           cap |-> IF recs \in LiveAddrs THEN heap[recs].cap ELSE 0,
                           age |-> IF recs \in LiveAddrs THEN heap[recs].age ELSE "none"]])
    /\ i' = i + 1
    /\ UNCHANGED <<pc, ap_num, recs, heap, tickRate, fnVars>>

\* the loop test fails
LoopExit ==
    /\ pc = "for"
    /\ ~LoopCond
    /\ pc' = "if_recs"
    /\ UNCHANGED <<ap_num, recs, i, heap, trace, tickRate, fnVars>>

\* free(recs) without the test of recs
Free_unguarded ==
    /\ pc = "if_recs"
    /\ heap' = [a \in Addrs |-> IF a = recs THEN FreeCell ELSE heap[a]]
    /\ trace' = Append(trace, [ev |-> "free", ptr |-> recs, wasLive |-> recs \in LiveAddrs])
    /\ pc' = "log_sep"
    /\ UNCHANGED <<ap_num, recs, i, tickRate, fnVars>>

\* the block is never given back
Free_leak ==
    /\ pc = "if_recs"
    /\ recs # NULL
    /\ pc' = "log_sep"
    /\ UNCHANGED <<ap_num, recs, i, heap, trace, tickRate, fnVars>>

\* if (recs) free(recs);
Free ==
    /\ pc = "if_recs"
    /\ recs # NULL
    /\ heap' = [heap EXCEPT ![recs] = FreeCell]
    /\ trace' = Append(trace, [ev |-> "free", ptr |-> recs, wasLive |-> recs \in LiveAddrs])
    /\ pc' = "log_sep"
    /\ UNCHANGED <<ap_num, recs, i, tickRate, fnVars>>

\* if (recs) not taken
SkipFree ==
    /\ pc = "if_recs"
    /\ recs = NULL
    /\ pc' = "log_sep"
    /\ UNCHANGED <<ap_num, recs, i, heap, trace, tickRate, fnVars>>

\* the closing separator line
LogSeparator ==
    /\ pc = "log_sep"
    /\ trace' = Append(trace, LogEv([kind |-> "rule_end"]))
    /\ pc' = "vTaskDelay"
    /\ UNCHANGED <<ap_num, recs, i, heap, tickRate, fnVars>>

\* vTaskDelay(pdMS_TO_TICKS(3000)): the task is suspended for that many ticks
VTaskDelay ==
    /\ pc = "vTaskDelay"
    /\ trace' = Append(trace, [ev |-> "delay", ticks |-> pdMS_TO_TICKS(DelayMs)])
    /\ pc' = "sleeping"
    /\ UNCHANGED <<ap_num, recs, i, heap, tickRate, fnVars>>

\* the loop is left after the delay
DelayExpire_exit ==
    /\ pc = "sleeping"
    /\ pc' = "returned"
    /\ UNCHANGED <<ap_num, recs, i, heap, trace, tickRate, fnVars>>

\* the delay expires and control returns to the head of while (1)
DelayExpire ==
    /\ pc = "sleeping"
    /\ pc' = "scan_start"
    /\ UNCHANGED <<ap_num, recs, i, heap, trace, tickRate, fnVars>>

Next ==
    \/ NvsFlashInit
    \/ EspNetifInit
    \/ EspEventLoopCreateDefault
    \/ EspNetifCreateDefaultWifiSta
    \/ EspWifiInit
    \/ EspWifiSetMode
    \/ EspWifiStart
    \/ ScanStart
    \/ ScanReturn
    \/ GetApNum
    \/ Calloc
    \/ SkipAlloc
    \/ GetApRecords
    \/ LogHeader
    \/ LogRow
    \/ LoopExit
    \/ Free
    \/ SkipFree
    \/ LogSeparator
    \/ VTaskDelay
    \/ DelayExpire

Spec == Init /\ [][Next]_vars

\* The task is the only one and is always scheduled; the blocking scan
\* returns and the delay expires.
FairSpec == Init /\ [][Next]_vars /\ WF_vars(Next)

----------------------------------------------------------------------------
(* The helpers on their own: the inputs are drawn in the initial state and *)
(* each helper is called once on them.                                     *)

FnBytes == {0, 65, 66}

SsidInputs ==
    {NullSsid} \cup {Pad(s) : s \in SeqsUpTo(FnBytes, MaxSsidLen)}
               \cup {r.ssid : r \in SampleRecords}

FnInit ==
    /\ ProgInit
    /\ fnMode \in AuthModes
    /\ fnSsid \in SsidInputs
    /\ fnLabel = "-"
    /\ fnDisp = << >>

\* const char *auth = authmode_to_str(m);
CallAuthmodeToStr ==
    /\ fnLabel = "-"
    /\ fnLabel' = authmode_to_str(fnMode)
    /\ UNCHANGED <<progVars, fnMode, fnSsid, fnDisp>>

\* const char *ssid = ssid_or_none(buffer);
CallSsidOrNone ==
    /\ fnDisp = << >>
    /\ fnDisp' = ssid_or_none(fnSsid)
    /\ UNCHANGED <<progVars, fnMode, fnSsid, fnLabel>>

FnNext == CallAuthmodeToStr \/ CallSsidOrNone

FnSpec == FnInit /\ [][FnNext]_vars

----------------------------------------------------------------------------
(* Reading the iteration history *)

Events(kind) == SelectSeq(trace, LAMBDA e : e.ev = kind)

CallsOf(fn) == SelectSeq(trace, LAMBDA e : e.ev = "call" /\ e.fn = fn)

\* invocations of the scan driver, releases, allocations, delays
ScanInvocations == SelectSeq(trace, LAMBDA e : e.ev = "invoke" /\ e.fn = "esp_wifi_scan_start")
Frees == Events("free")
Callocs == Events("calloc")
Delays == Events("delay")

LogLines == [k \in 1..Len(Events("log")) |-> Events("log")[k].line]
RowEvents == SelectSeq(trace, LAMBDA e : e.ev = "log" /\ e.line.kind = "row")
HeaderLines == SelectSeq(LogLines, LAMBDA l : l.kind = "header")

FailedCalls == SelectSeq(trace, LAMBDA e : e.ev = "call" /\ e.ret # ESP_OK)

\* the history still is that of initialisation and no scan was invoked yet
FirstIteration == Len(ScanInvocations) = 0

\* the count esp_wifi_scan_get_ap_num reported in this iteration (-1: none yet)
Reported ==
    IF Len(CallsOf("esp_wifi_scan_get_ap_num")) = 0 THEN -1
    ELSE CallsOf("esp_wifi_scan_get_ap_num")[1].number

\* the records esp_wifi_scan_get_ap_records returned in this iteration
Fetched ==
    LET ok == SelectSeq(CallsOf("esp_wifi_scan_get_ap_records"), LAMBDA e : e.ret = ESP_OK)
    IN  IF Len(ok) = 0 THEN << >> ELSE ok[1].records

\* an iteration has run to its end and the next has not invoked the driver yet
EndOfCycle == pc = "sleeping" \/ (pc = "scan_start" /\ ~FirstIteration)

----------------------------------------------------------------------------
(* Claims *)

\* C1 as stated: at the end of every iteration, whatever count the driver
\* reported (0 included), exactly one scan was invoked and exactly one buffer
\* was released.
C1_OneScanOneFreeEveryCycle ==
    EndOfCycle => Len(ScanInvocations) = 1 /\ Len(Frees) = 1

\* C1 amended: at the end of every iteration exactly one scan was invoked;
\* exactly one buffer was released if the reported count was positive, and
\* none if it was 0 (no buffer is allocated then).
C1_OneScanOneFreeIfAllocated ==
    EndOfCycle =>
        /\ Len(ScanInvocations) = 1
        /\ Len(CallsOf("esp_wifi_scan_start")) = 1
        /\ Len(Frees) = (IF Reported > 0 THEN 1 ELSE 0)
        /\ \A k \in 1..Len(Frees) : Frees[k].wasLive

C1_Witness == EndOfCycle /\ Reported = 0 /\ Len(Frees) = 0

CheckedInitCalls ==
    <<"nvs_flash_init", "esp_netif_init", "esp_event_loop_create_default",
      "esp_wifi_init", "esp_wifi_set_mode", "esp_wifi_start">>

\* C2: a non-success return of a checked call aborts the program there: the
\* failed call is the last thing the program did (no further call, no retry,
\* no sleep), the iteration has logged no line, the aborted state has no
\* successor, and the first scan is invoked only after all six
\* initialisation calls returned ESP_OK, in their order.
C2_FailureIsFatal ==
    /\ Len(FailedCalls) > 0 =>
          /\ pc = "aborted"
          /\ Len(FailedCalls) = 1
          /\ trace[Len(trace)] = FailedCalls[1]
          /\ Len(CallsOf(FailedCalls[1].fn)) = 1
          /\ Len(Events("log")) = 0
          /\ Len(Delays) = 0
    /\ pc = "aborted" => Len(FailedCalls) = 1 /\ ~ENABLED Next
    /\ (Phase \notin {"INIT", "ABORTED"} /\ FirstIteration) =>
          /\ Len(Events("call")) = Len(CheckedInitCalls)
          /\ \A k \in 1..Len(CheckedInitCalls) :
                Events("call")[k] = CallEv(CheckedInitCalls[k], ESP_OK)
    /\ Phase \notin {"INIT", "ABORTED"} => pc \in {"scan_start", "scan_blocked", "get_ap_num",
                                   "if_ap_num", "get_ap_records", "log_header", "for",
                                   "if_recs", "log_sep", "vTaskDelay", "sleeping"}

C2_Witness ==
    /\ pc = "aborted"
    /\ Len(FailedCalls) = 1
    /\ FailedCalls[1].fn = "esp_wifi_scan_get_ap_records"
    /\ recs # NULL

\* C3: no buffer is allocated in a SLEEPING or SCANNING state; at most one
\* buffer is live at any time; a buffer is allocated at most once per
\* iteration and for exactly the count the driver reported in it; every row
\* was formatted from a buffer that was live and allocated in this iteration.
C3_BufferLifecycle ==
    /\ Phase \in {"SLEEPING", "SCANNING"} => LiveAddrs = {}
    /\ Cardinality(LiveAddrs) <= 1
    /\ Len(Callocs) <= 1
    /\ \A k \in 1..Len(Callocs) : Callocs[k].n = Reported /\ Reported > 0
    /\ \A k \in 1..Len(Callocs) :
          Callocs[k].ptr # NULL /\ Len(Frees) = 0 =>
              /\ LiveAddrs = {Callocs[k].ptr}
              /\ heap[Callocs[k].ptr].cap = Reported
              /\ heap[Callocs[k].ptr].age = "cur"
    /\ \A k \in 1..Len(RowEvents) :
          /\ RowEvents[k].read.live
          /\ RowEvents[k].read.age = "cur"
    /\ pc = "for" => Len(Frees) = 0
    /\ \A k \in 1..Len(trace), j \in 1..Len(trace) :
          (trace[k].ev = "free" /\ trace[j].ev = "log" /\ trace[j].line.kind = "row") => j < k

C3_Witness ==
    /\ Phase = "SLEEPING"
    /\ Len(Frees) = 1
    /\ Len(RowEvents) = MaxAp
    /\ LiveAddrs = {}

\* C4: when an iteration other than the first is about to invoke the scan, the
\* previous iteration slept exactly once, for 3000 ms at the build's tick
\* rate, and that sleep was its last act, right after the closing separator
\* of a complete report.
C4_SleepBetweenScans ==
    (pc = "scan_start" /\ ~FirstIteration) =>
        /\ Len(Delays) = 1
        /\ trace[Len(trace)].ev = "delay"
        /\ TicksToMs(trace[Len(trace)].ticks) = 3000
        /\ trace[Len(trace) - 1] = LogEv([kind |-> "rule_end"])
        /\ Len(HeaderLines) = 1
        /\ Len(ScanInvocations) = 1

C4_Witness ==
    /\ pc = "scan_start"
    /\ ~FirstIteration
    /\ tickRate = 250
    /\ Len(Delays) = 1

PhaseOrder ==
    {<<"INIT", "SCANNING">>, <<"SCANNING", "REPORTING">>, <<"REPORTING", "SLEEPING">>,
     <<"SLEEPING", "SCANNING">>, <<"INIT", "ABORTED">>, <<"SCANNING", "ABORTED">>,
     <<"REPORTING", "ABORTED">>}

\* C5: the phases follow INIT, SCANNING, REPORTING, SLEEPING, SCANNING, ...;
\* the only way out is the abort of a failed checked call; every state that
\* is not aborted has a next step; and if the program never aborts, a scan is
\* invoked again and again.
C5_LoopsForever ==
    /\ [][Phase' = Phase \/ <<Phase, Phase'>> \in PhaseOrder]_vars
    /\ [](Phase \in {"INIT", "SCANNING", "REPORTING", "SLEEPING", "ABORTED"})
    /\ [](pc = "aborted" => Len(FailedCalls) = 1)
    /\ [](pc # "aborted" => ENABLED Next)
    /\ ([](pc # "aborted")) => []<>(pc = "scan_blocked")

C5_Witness == Phase = "SCANNING" /\ pc = "scan_blocked" /\ recs # NULL /\ ap_num = MaxAp

\* C6: the log of an iteration is the header, a rule, the title, a rule, then
\* one row per fetched record in the driver's order, row k carrying index k
\* and the fields of the k-th record, then the closing rule; once the rows are
\* done their number is the count printed in the header.
C6_RowsMatchRecords ==
    Len(LogLines) > 0 =>
        LET rows == [k \in 1..Len(RowEvents) |-> RowEvents[k].line]
            done == pc \notin {"for"}
        IN  /\ Len(LogLines) >= 4
            /\ LogLines[1].kind = "header"
            /\ LogLines[2].kind = "rule"
            /\ LogLines[3].kind = "title"
            /\ LogLines[4].kind = "rule"
            /\ Len(rows) <= Len(Fetched)
            /\ \A k \in 1..Len(rows) :
                  /\ LogLines[4 + k] = rows[k]
                  /\ rows[k].idx = k - 1
                  /\ rows[k].ssid = (IF Fetched[k].ssid[1] = 0 THEN <<78, 79, 78, 69>>
                                     ELSE CStr(Fetched[k].ssid))
                  /\ rows[k].rssi = Fetched[k].rssi
                  /\ rows[k].unit = "dBm"
                  /\ rows[k].primary = Fetched[k].primary
                  /\ rows[k].auth = authmode_to_str(Fetched[k].authmode)
                  /\ rows[k].bssid = [b \in 1..6 |-> Hex02X(Fetched[k].bssid[b])]
            /\ done => /\ Len(rows) = Len(Fetched)
                       /\ LogLines[1].text[2] = Len(rows)
            /\ Len(LogLines) > 4 + Len(rows) =>
                  /\ done
                  /\ Len(LogLines) = 5 + Len(rows)
                  /\ LogLines[Len(LogLines)].kind = "rule_end"
            /\ pc \in {"vTaskDelay", "sleeping", "scan_start"} => Len(LogLines) = 5 + Len(rows)

C6_Witness ==
    /\ EndOfCycle
    /\ Len(RowEvents) = 2
    /\ Fetched[1] # Fetched[2]
    /\ Fetched[1].ssid[1] = 0
    /\ RowEvents[1].line.ssid = <<78, 79, 78, 69>>
    /\ RowEvents[2].line.bssid = <<"11", "22", "33", "44", "55", "66">>

\* C7: the header reads "Found 1 network" exactly when the count is 1 and
\* "Found <N> networks" for every other count, 0 included.
C7_HeaderPlural ==
    \A k \in 1..Len(HeaderLines) :
        /\ HeaderLines[k].text[2] = ap_num
        /\ HeaderLines[k].text =
              (IF ap_num = 1 THEN <<"Found ", 1, " network", "">>
               ELSE <<"Found ", ap_num, " network", "s">>)

C7_Witness ==
    /\ Len(HeaderLines) = 1
    /\ Reported = 0
    /\ HeaderLines[1].text = <<"Found ", 0, " network", "s">>

\* the labels the specification lists for the recognised modes
ClaimedLabel ==
    [m \in RecognizedModes |->
        CASE m = "WIFI_AUTH_OPEN"            -> "OPEN"
          [] m = "WIFI_AUTH_WEP"             -> "WEP"
          [] m = "WIFI_AUTH_WPA_PSK"         -> "WPA"
          [] m = "WIFI_AUTH_WPA2_PSK"        -> "WPA2"
          [] m = "WIFI_AUTH_WPA_WPA2_PSK"    -> "WPA/WPA2"
          [] m = "WIFI_AUTH_WPA2_ENTERPRISE" -> "WPA2-E"
          [] m = "WIFI_AUTH_WPA3_PSK"        -> "WPA3"
          [] m = "WIFI_AUTH_WPA2_WPA3_PSK"   -> "WPA2/3"]

\* C8: a call of authmode_to_str returns the listed label for each of the
\* eight recognised modes and "UNK" for every other value, the labels of two
\* recognised modes differ, and the call leaves the program state alone.
C8_AuthLabel ==
    fnLabel # "-" =>
        /\ fnMode \in RecognizedModes => fnLabel = ClaimedLabel[fnMode]
        /\ fnMode \notin RecognizedModes => fnLabel = "UNK"
        /\ \A m \in RecognizedModes \ {fnMode} : authmode_to_str(m) # fnLabel
        /\ pc = "nvs_flash_init" /\ trace = << >> /\ LiveAddrs = {}
        /\ ap_num = 0 /\ recs = NULL /\ i = 0

C8_Witness == fnLabel = "UNK" /\ fnMode = "WIFI_AUTH_OWE"

\* C9: a call of ssid_or_none on a buffer returns "NONE" when the first byte
\* of the buffer is zero, whatever follows it, and the buffer itself, byte
\* for byte, when the first byte is not zero.
C9_SsidOrNone ==
    (fnDisp # << >> /\ fnSsid # NullSsid) =>
        /\ fnSsid[1] = 0 => fnDisp = NONE /\ CStr(fnDisp) = <<78, 79, 78, 69>>
        /\ fnSsid[1] # 0 => fnDisp = fnSsid

C9_Witness ==
    /\ fnDisp = NONE
    /\ fnSsid # NullSsid
    /\ fnSsid[1] = 0
    /\ \E k \in 2..SsidBufLen : fnSsid[k] # 0

\* C10: every row was formatted from a record of a live buffer: the pointer
\* was not null, the block was live and the index was below the number of
\* records the block was allocated for.  With a reported count of 0 there is
\* no allocation, no fetch and no row; after a failed allocation there is no
\* row.
C10_RowReadsInBounds ==
    /\ \A k \in 1..Len(RowEvents) :
          /\ RowEvents[k].read.ptr # NULL
          /\ RowEvents[k].read.live
          /\ RowEvents[k].read.index < RowEvents[k].read.cap
          /\ RowEvents[k].read.index < Reported
    /\ Reported = 0 =>
          /\ Len(Callocs) = 0
          /\ Len(CallsOf("esp_wifi_scan_get_ap_records")) = 0
          /\ Len(RowEvents) = 0
    /\ (\E k \in 1..Len(Callocs) : Callocs[k].ptr = NULL) => Len(RowEvents) = 0
    /\ pc = "for" /\ LoopCond => AccessOk

C10_Witness ==
    /\ Reported = MaxAp
    /\ Len(Fetched) = MaxAp - 1
    /\ Len(RowEvents) = MaxAp - 1
    /\ pc = "if_recs"

====
